---- MODULE Spec2Model ----
(***************************************************************************)
(* Resilient execution: ExponentialBackoffRetry, CircuitBreaker and        *)
(* RetryMechanism (src/unnamed/part_002, lines 93-233).                    *)
(*                                                                         *)
(* Several callers share one RetryMechanism, hence one CircuitBreaker and  *)
(* one ExponentialBackoffRetry.  The callers of one program either all     *)
(* call RetryMechanism.execute(fn) (Kind = "rm", as fetchUserData and      *)
(* updateUserProfile do) or all call CircuitBreaker.execute(fn) on the     *)
(* breaker itself (Kind = "cb").  JavaScript runs each stretch of code     *)
(* between two awaits without interruption, so every action below is one   *)
(* such stretch; the stretches of different callers interleave.            *)
(*                                                                         *)
(* Spec is that retry system.  SpecCancel adds a caller that gives a call  *)
(* up during a backoff wait.  SpecBackoff is an ExponentialBackoffRetry on *)
(* its own (constructor and calculateDelay), SpecPlugins the PluginManager *)
(* (src/unnamed/part_002, lines 285-378) and SpecLimiter the               *)
(* AdaptiveRateLimiter (src/examples/AdaptiveRateLimiter.js).              *)
(***************************************************************************)
EXTENDS Integers, Sequences, FiniteSets, TLC

\* ---------------------------------------------------------------- bounds
NumCallers == 2          \* concurrent callers
MaxCalls == 4            \* execute calls started in one behaviour
MaxTime == 2             \* last value of the clock (Date.now())
MaxRetriesOpt == 2       \* largest options.maxRetries
MaxThresholdOpt == 2     \* largest options.failureThreshold
RandDen == 2             \* Math.random() draws r / RandDen, r in 0..RandDen-1
MaxDelayOpt == 2         \* largest options.baseDelay and options.maxDelay tried
MaxIndex == 2            \* largest retryCount passed to calculateDelay
NumTasks == 2            \* concurrent users of the PluginManager
MaxOps == 4              \* PluginManager operations started in one behaviour
NumRequests == 2         \* concurrent isAllowed calls
NumClients == 1          \* client ids
MaxChecks == 2           \* isAllowed calls started in one behaviour
MaxLimitOpt == 1         \* largest options.minLimit; maxLimit goes one further

\* AdaptiveRateLimiter (src/examples/AdaptiveRateLimiter.js)
DefaultBaseLimit == 100
DefaultWindowMs == 60000
DefaultMinLimit == 10
DefaultMaxLimit == 1000

\* ------------------------------------------------- program constants
DefaultBaseDelay == 1000
DefaultMaxDelay == 30000
DefaultMaxRetries == 5
DefaultFailureThreshold == 5
DefaultResetTimeout == 60000

Callers == 1..NumCallers

\* the value of pm or rl in a program that constructs no PluginManager or
\* no AdaptiveRateLimiter
Unused == <<>>
Null == -1               \* lastFailureTime = null

VARIABLES
    cfg,        \* the program: the options the RetryMechanism was constructed
                \* with and which execute its callers call
    state,      \* CircuitBreaker.state
    failures,   \* CircuitBreaker.failures
    lastFailureTime,    \* CircuitBreaker.lastFailureTime (Null or a time)
    now,        \* Date.now()
    call,       \* per caller: the position and locals of its execute call
    res,        \* per caller: how its last execute call settled
    hist,       \* the admitted calls settled since the breaker was last
                \* Closed with failures = 0, in the order in which they settled
    calls,      \* number of execute calls started
    backoff,    \* an ExponentialBackoffRetry on its own: the options given
                \* to `new`, its fields, and its last calculateDelay
    pm,         \* a PluginManager: #plugins, #hooks and the operations of its
                \* users
    rl          \* an AdaptiveRateLimiter: its fields and the isAllowed calls
                \* in progress

vars == <<cfg, state, failures, lastFailureTime, now, call, res, hist, calls,
          backoff, pm, rl>>

\* the variables of the retry system
retrySystem == <<cfg, state, failures, lastFailureTime, now, call, res, hist,
                 calls, backoff>>

\* which execute the callers call
Kind == cfg.kind

\* ------------------------------------------------------------ helpers
Min(a, b) == IF a <= b THEN a ELSE b

RECURSIVE Pow2(_)
Pow2(n) == IF n = 0 THEN 1 ELSE 2 * Pow2(n - 1)

\* JavaScript's `x || d` on a number: 0 is falsy
OrDefault(x, d) == IF x = 0 THEN d ELSE x

\* null coerces to 0 in `Date.now() - this.lastFailureTime`
ToNumber(t) == IF t = Null THEN 0 ELSE t

\* ------------------------------------- ExponentialBackoffRetry (103-147)
BaseDelay == OrDefault(cfg.baseDelay, DefaultBaseDelay)
MaxDelay == OrDefault(cfg.maxDelay, DefaultMaxDelay)
MaxRetries == OrDefault(cfg.maxRetries, DefaultMaxRetries)

\* line 118: the retry loop gives up
RetriesExhausted_gt(retries, maxRetries) == retries > maxRetries
RetriesExhausted_early(retries, maxRetries) == retries + 1 >= maxRetries
RetriesExhausted(retries, maxRetries) == retries >= maxRetries

\* line 108, `options.jitter || true`: options.jitter is "true", "false"
\* or "undefined" (not given)
Truthy(opt) == opt = "true"
JitterOf(opt) == IF Truthy(opt) THEN Truthy(opt) ELSE TRUE

\* retrySystem (lines 236-240) gives no jitter option
Jitter == JitterOf("undefined")

Delay_onePlus(baseDelay, maxDelay, jitter, retryCount, r) ==
    LET delay == Min(maxDelay, Pow2(retryCount) * baseDelay)
    IN IF jitter THEN delay * (2 * RandDen + 2 * r) ELSE delay * (2 * RandDen)

\* lines 130-141, calculateDelay with the fields of `this` as parameters
\* and the draw r / RandDen of Math.random(); the result is a number of
\* (2 * RandDen)-ths of a millisecond: delay * (0.5 + r / RandDen) with
\* jitter, delay without
Delay(baseDelay, maxDelay, jitter, retryCount, r) ==
    LET delay == Min(maxDelay, Pow2(retryCount) * baseDelay)
    IN IF jitter THEN delay * (RandDen + 2 * r) ELSE delay * (2 * RandDen)

\* calculateDelay of the RetryMechanism's retrier
DelayDen == 2 * RandDen
CalculateDelay(retryCount, r) ==
    Delay(BaseDelay, MaxDelay, Jitter, retryCount, r)

\* wait(ms), called at time t: the first millisecond of the clock at which
\* the timer has run for delayNum / DelayDen; it does not fire before
TimerDue(t, delayNum) == t + ((delayNum + DelayDen - 1) \div DelayDen)
TimerFired(due) == now >= due

\* ------------------------------------------------ CircuitBreaker (149-184)
FailureThreshold == OrDefault(cfg.failureThreshold, DefaultFailureThreshold)
ResetTimeout == OrDefault(cfg.resetTimeout, DefaultResetTimeout)

\* line 160
TimeoutElapsed_noSub(t, lft, resetTimeout) == t >= resetTimeout
TimeoutElapsed(t, lft, resetTimeout) == t - ToNumber(lft) >= resetTimeout

Gate_eager(st, t, lft, resetTimeout) ==
    IF st = "OPEN"
    THEN [admit |-> TimeoutElapsed(t, lft, resetTimeout), state |-> "HALF_OPEN"]
    ELSE [admit |-> TRUE, state |-> st]

\* lines 159-165: what the gate does to a call that finds the breaker in st
Gate(st, t, lft, resetTimeout) ==
    IF st = "OPEN"
    THEN IF TimeoutElapsed(t, lft, resetTimeout)
         THEN [admit |-> TRUE, state |-> "HALF_OPEN"]
         ELSE [admit |-> FALSE, state |-> st]
    ELSE [admit |-> TRUE, state |-> st]

\* line 178
Tripped_gt(f, threshold) == f > threshold
Tripped(f, threshold) == f >= threshold

OnSuccess_noReset(st, f) ==
    [state |-> IF st = "HALF_OPEN" THEN "CLOSED" ELSE st, failures |-> f]

OnSuccess_counts(st, f) == [state |-> st, failures |-> f + 1]

\* lines 169-172: the breaker after a success
OnSuccess(st, f) ==
    IF st = "HALF_OPEN"
    THEN [state |-> "CLOSED", failures |-> 0]
    ELSE [state |-> st, failures |-> f]

\* lines 117-125: the retry loop catches the failure of an attempt, so the
\* catch of the breaker (174-182) does not run and the breaker stays as it is
OnAttemptFailure_counted(st, f, threshold) ==
    [state |-> IF f + 1 >= threshold THEN "OPEN" ELSE st, failures |-> f + 1]
OnAttemptFailure(st, f, threshold) == [state |-> st, failures |-> f]

\* lines 175-180: the breaker after a failure
OnFailure(st, f, threshold) ==
    [state |-> IF Tripped(f + 1, threshold) THEN "OPEN" ELSE st,
     failures |-> f + 1]

\* ----------------------------------------------------------- results
NoResult == [status |-> "none", name |-> "-", error |-> "-", attempts |-> 0]
\* a value returned
Returned == [status |-> "ok", name |-> "-", error |-> "-", attempts |-> 0]
\* an Error thrown as it is: error names which one ("op" the operation's,
\* "exhausted" line 119's, "open" line 163's)
Thrown(e) == [status |-> "err", name |-> "Error", error |-> e, attempts |-> 0]
\* lines 93-101, 212: RetryError(originalError, attempts, duration); the
\* duration is left out
RetryError(e, attempts) ==
    [status |-> "err", name |-> "RetryError", error |-> e,
     attempts |-> attempts]

Settle_retriesOnly(k, e, attempts) ==
    IF k = "rm" THEN RetryError(e, IF attempts > 0 THEN attempts - 1 ELSE 0)
    ELSE Thrown(e)

\* lines 216-223: logger.info({event: 'retry_success', context, attempts,
\* duration}); the duration is left out
LogSuccess(log, attempts) ==
    Append(log, [event |-> "retry_success", attempts |-> attempts])

LogFailure_fromZero(log, attempts) ==
    Append(log, [event |-> "retry_failure", attempts |-> attempts - 1])

\* lines 225-232: logger.error({event: 'retry_failure', context, attempts,
\* error})
LogFailure(log, attempts) ==
    Append(log, [event |-> "retry_failure", attempts |-> attempts])

\* lines 211-213 (Kind "rm") or the caller itself (Kind "cb")
Settle(k, e, attempts) ==
    IF k = "rm" THEN RetryError(e, attempts) ELSE Thrown(e)

\* A caller without a call in progress.  pc: "idle", "op" (the operation
\* is running), "wait" (backoff timer), "ret" (the operation or the retry
\* loop has settled with out, the breaker has not resumed yet).  attempts
\* and retries are the locals of lines 195 and 112.  Kept for the
\* properties: inv, failed and waits count the invocations of the
\* operation, those that failed and the backoff waits of the call; found
\* is what the call found when it started: "early" (Open, resetTimeout not
\* elapsed), "trial" (Open, resetTimeout elapsed) or "other".  log is what
\* the logger has received for the caller's last call (its context);
\* cancelled tells that the caller has given the call up while it waited.
Idle == [pc |-> "idle", attempts |-> 0, retries |-> 0, due |-> 0, out |-> "-",
         inv |-> 0, failed |-> 0, waits |-> 0, found |-> "-", log |-> <<>>,
         cancelled |-> FALSE]

InFlight(c) == call[c].pc \in {"op", "wait", "ret"}

\* The options given to `new ExponentialBackoffRetry(options)`; 0 stands
\* for a field left out as well (both are falsy).
BackoffOptions ==
    [baseDelay : -1..MaxDelayOpt,
     maxDelay : -1..MaxDelayOpt,
     maxRetries : -1..1,
     jitter : {"true", "false", "undefined"}]

\* backoff before `new` (pc "new") and after (pc "built"): opts are the
\* options, baseDelay .. jitter the fields of lines 105-108, and i, r and
\* delay the last calculateDelay(i) with its draw and its result (i = -1:
\* none yet)
NewBackoff(opts) ==
    [pc |-> "new", opts |-> opts,
     baseDelay |-> 0, maxDelay |-> 0, maxRetries |-> 0, jitter |-> FALSE,
     i |-> -1, r |-> 0, delay |-> 0]

\* the backoff of a program that uses the RetryMechanism only
NoBackoff ==
    NewBackoff([baseDelay |-> 0, maxDelay |-> 0, maxRetries |-> 0,
                jitter |-> "undefined"])

\* ------------------------------------------------ PluginManager (285-378)
Tasks == 1..NumTasks
Names == {"a", "b"}
HookNames == {"h1", "h2"}
Fns == {"f", "g"}
PluginIds == 0..3

\* The plugin objects handed to registerPlugin.  0 has no name; 1 and 2
\* are two plugins of the same name, both with an initialize function; 3
\* has no initialize, shares the function f under h1 with 1 and uses under
\* h2 the function that 2 uses under h1.  hooks is plugin.hooks as pairs
\* <<hookName, hookFn>>.
Plugin(p) ==
    CASE p = 0 -> [name |-> "", version |-> "1.0.0", initialize |-> FALSE,
                   shutdown |-> FALSE, hooks |-> {}]
      [] p = 1 -> [name |-> "a", version |-> "1.0.0", initialize |-> TRUE,
                   shutdown |-> FALSE, hooks |-> {<<"h1", "f">>}]
      [] p = 2 -> [name |-> "a", version |-> "2.0.0", initialize |-> TRUE,
                   shutdown |-> TRUE, hooks |-> {<<"h1", "g">>}]
      [] OTHER -> [name |-> "b", version |-> "1.0.0", initialize |-> FALSE,
                   shutdown |-> TRUE, hooks |-> {<<"h1", "f">>, <<"h2", "g">>}]

\* Object.values(plugin.hooks)
FnsOf(p) == {hf[2] : hf \in Plugin(p).hooks}

\* line 291
WellFormed(p) == Plugin(p).name # "" /\ Plugin(p).version # ""

\* lines 308-313: #hooks after the hooks of p are added (a hook name
\* without functions is one that #hooks does not hold)
AddHooks(hooks, p) ==
    [h \in HookNames |-> hooks[h] \cup {hf[2] : hf \in {x \in Plugin(p).hooks : x[1] = h}}]

\* lines 346-353: #hooks after unregisterPlugin has removed the hooks of p
RemoveHooks(hooks, p) == [h \in HookNames |-> hooks[h] \ FnsOf(p)]

\* A task without an operation in progress.  pc: "idle", "initialize"
\* (awaiting plugin.initialize(), line 302) or "shutdown" (awaiting
\* plugin.shutdown(), line 358); op is the task's last operation and p its
\* plugin.
IdleTask == [pc |-> "idle", op |-> "-", p |-> 0]

\* A new PluginManager (lines 286-287).  plugins maps a name to its
\* plugin, 0 when #plugins has no such key.  Kept for the properties: res
\* (how each task's last operation ended), ops (operations started), actor
\* (the task that moved last), regs (registerPlugin calls that succeeded
\* for a name since the name was last deleted), gone (plugins whose
\* unregisterPlugin has completed and that were not registered again) and
\* last (the last executeHook: its hook name and the functions it invoked).
NoPlugins ==
    [plugins |-> [n \in Names |-> 0],
     hooks |-> [h \in HookNames |-> {}],
     task |-> [t \in Tasks |-> IdleTask],
     res |-> [t \in Tasks |-> "none"],
     ops |-> 0,
     actor |-> 0,
     regs |-> [n \in Names |-> 0],
     gone |-> {},
     last |-> [hook |-> "-", invoked |-> {}]]

\* ------------------------- AdaptiveRateLimiter (AdaptiveRateLimiter.js)
Requests == 1..NumRequests
Clients == 1..NumClients
Max(a, b) == IF a >= b THEN a ELSE b

\* the options given to `new AdaptiveRateLimiter(options)`; 0 stands for a
\* field left out as well
LimiterOptions ==
    [baseLimit : 0..1,
     minLimit : 0..MaxLimitOpt,
     maxLimit : 1..(MaxLimitOpt + 1),
     windowMs : 0..1]

\* requests.filter(time => time > windowStart), lines 25 and 40
Recent(times, windowStart) ==
    SelectSeq(times, LAMBDA time : time > windowStart)

\* lines 37-46: cleanup() at time t (a client without requests is one
\* that the map does not hold)
Cleanup(requests, t, windowMs) ==
    [c \in Clients |-> Recent(requests[c], t - windowMs)]

\* lines 61-66: the multiplier in hundredths, for a system load given in
\* tenths and the metrics counters
LoadFactor(load) == IF load > 8 THEN 80 ELSE IF load < 3 THEN 120 ELSE 100
ErrorFactor(successCount, errorCount) ==
    LET total == OrDefault(successCount + errorCount, 1)
    IN IF 10 * errorCount > total THEN 70
       ELSE IF 100 * errorCount < total THEN 110 ELSE 100

\* Math.floor(currentLimit * multiplier), line 72.  The multiplier is a
\* binary fraction (0.8 * 0.7 is 0.5599999999999999), so a product that
\* is a whole number in exact arithmetic may come out just below it: down
\* chooses that outcome.
Scaled(currentLimit, f1, f2, down) ==
    LET exact == currentLimit * f1 * f2
    IN IF down /\ exact > 0 /\ exact % 10000 = 0 /\ f1 * f2 # 10000
       THEN (exact \div 10000) - 1
       ELSE exact \div 10000

AdjustLimit_noMin(currentLimit, minLimit, maxLimit, f1, f2, down) ==
    Min(maxLimit, Scaled(currentLimit, f1, f2, down))

\* lines 57-75: adjustLimit
AdjustLimit(currentLimit, minLimit, maxLimit, f1, f2, down) ==
    Min(maxLimit, Max(minLimit, Scaled(currentLimit, f1, f2, down)))

\* An isAllowed call: pc "idle", "metrics" (awaiting getSystemMetrics,
\* line 50) or "adjusted" (awaiting updateMetrics, line 22), and its client
IdleRequest == [pc |-> "idle", client |-> 0]

\* lines 5-18: the limiter built from opts.  requests maps a client to its
\* recorded times.  Kept for the properties: out (what each caller's last
\* isAllowed returned), admitted (all the times at which a client was
\* admitted), checks (calls started) and done (calls completed).
NewLimiter(opts) ==
    [baseLimit |-> OrDefault(opts.baseLimit, DefaultBaseLimit),
     windowMs |-> OrDefault(opts.windowMs, DefaultWindowMs),
     minLimit |-> OrDefault(opts.minLimit, DefaultMinLimit),
     maxLimit |-> OrDefault(opts.maxLimit, DefaultMaxLimit),
     currentLimit |-> OrDefault(opts.baseLimit, DefaultBaseLimit),
     requests |-> [c \in Clients |-> <<>>],
     req |-> [q \in Requests |-> IdleRequest],
     out |-> [q \in Requests |-> "none"],
     admitted |-> [c \in Clients |-> <<>>],
     checks |-> 0,
     done |-> 0]

\* ---------------------------------------------------------------- Init
Init ==
    /\ cfg \in [kind : {"cb", "rm"},
                maxRetries : 0..MaxRetriesOpt,
                failureThreshold : 1..MaxThresholdOpt,
                resetTimeout : {1},
                baseDelay : {1},
                maxDelay : {2}]
    /\ cfg.kind = "cb" => cfg.maxRetries = 0      \* no retrier in use
    /\ state = "CLOSED"
    /\ failures = 0
    /\ lastFailureTime = Null
    /\ now = 0
    /\ call = [c \in Callers |-> Idle]
    /\ res = [c \in Callers |-> NoResult]
    /\ hist = <<>>
    /\ calls = 0
    /\ backoff = NoBackoff
    /\ pm = Unused
    /\ rl = Unused

\* ------------------------------------------------------------- actions
\* execute is called: RetryMechanism.execute lines 194-199 or
\* CircuitBreaker.execute directly, then the gate (159-165); an admitted
\* call runs on to the first invocation of the operation (168, 116, 200-202),
\* a rejected one throws (163, 211-213).  The callers are alike: a new
\* call is given to the first caller that has none in progress.
Start(c) ==
    /\ call[c].pc = "idle"
    /\ \A d \in Callers : d < c => call[d].pc # "idle"
    /\ calls < MaxCalls
    /\ calls' = calls + 1
    /\ LET g == Gate(state, now, lastFailureTime, ResetTimeout)
           found == IF state # "OPEN" THEN "other"
                    ELSE IF now - ToNumber(lastFailureTime) < ResetTimeout
                         THEN "early" ELSE "trial"
       IN /\ state' = g.state
          /\ IF g.admit
             THEN /\ call' = [call EXCEPT ![c] =
                        [Idle EXCEPT !.pc = "op",
                                     !.attempts = IF Kind = "rm" THEN 1 ELSE 0,
                                     !.inv = 1,
                                     !.found = found]]
                  /\ res' = [res EXCEPT ![c] = NoResult]
             ELSE /\ call' = [call EXCEPT ![c] = [Idle EXCEPT !.found = found]]
                  /\ res' = [res EXCEPT ![c] = Settle(Kind, "open", 0)]
    /\ UNCHANGED <<backoff, pm, rl, cfg, failures, lastFailureTime, now, hist>>

\* the operation settles (ok: it resolves, otherwise it rejects).
\* Kind "rm": lines 203-208, then the retry loop, lines 116-123.  r is the
\* draw of Math.random(), made only when calculateDelay runs (r = 0
\* otherwise).
OpSettle(c, ok, r) ==
    /\ call[c].pc = "op"
    /\ (ok \/ Kind = "cb" \/ RetriesExhausted(call[c].retries, MaxRetries)) => r = 0
    /\ IF ok
       THEN /\ call' = [call EXCEPT ![c].pc = "ret", ![c].out = "ok",
                                    ![c].log = IF Kind = "rm"
                                               THEN LogSuccess(@, call[c].attempts)
                                               ELSE @]
            /\ UNCHANGED <<state, failures>>
       ELSE IF Kind = "cb"
            THEN /\ call' = [call EXCEPT ![c].pc = "ret", ![c].out = "op",
                                         ![c].failed = @ + 1]
                 /\ UNCHANGED <<state, failures>>
            ELSE LET b == OnAttemptFailure(state, failures, FailureThreshold)
                     logged == LogFailure(call[c].log, call[c].attempts)
                 IN /\ state' = b.state
                    /\ failures' = b.failures
                    /\ IF RetriesExhausted(call[c].retries, MaxRetries)
                       THEN call' = [call EXCEPT ![c].pc = "ret",
                                                 ![c].out = "exhausted",
                                                 ![c].failed = @ + 1,
                                                 ![c].log = logged]
                       ELSE call' = [call EXCEPT ![c].pc = "wait",
                                                 ![c].due = TimerDue(now,
                                                    CalculateDelay(call[c].retries, r)),
                                                 ![c].failed = @ + 1,
                                                 ![c].waits = @ + 1,
                                                 ![c].log = logged]
    /\ UNCHANGED <<backoff, pm, rl, cfg, lastFailureTime, now, res, hist, calls>>

\* the backoff timer fires: lines 124, 114-116, 200-202
Wake(c) ==
    /\ call[c].pc = "wait"
    /\ TimerFired(call[c].due)
    /\ call' = [call EXCEPT ![c].pc = "op",
                            ![c].due = 0,
                            ![c].retries = @ + 1,
                            ![c].attempts = @ + 1,
                            ![c].inv = @ + 1]
    /\ UNCHANGED <<backoff, pm, rl, cfg, state, failures, lastFailureTime, now, res, hist, calls>>

\* CircuitBreaker.execute resumes after `await fn()`: lines 168-182, then
\* RetryMechanism.execute lines 198, 211-213, which log nothing
Return(c) ==
    /\ call[c].pc = "ret"
    /\ LET b == IF call[c].out = "ok"
                THEN OnSuccess(state, failures)
                ELSE OnFailure(state, failures, FailureThreshold)
           reset == b.state = "CLOSED" /\ b.failures = 0
           entry == [out |-> IF call[c].out = "ok" THEN "ok" ELSE "err",
                     inv |-> call[c].inv]
       IN /\ state' = b.state
          /\ failures' = b.failures
          /\ lastFailureTime' = IF call[c].out = "ok" THEN lastFailureTime ELSE now
          /\ res' = [res EXCEPT ![c] =
                IF call[c].out = "ok" THEN Returned
                ELSE Settle(Kind, call[c].out, call[c].attempts)]
          /\ hist' = IF reset THEN <<>> ELSE Append(hist, entry)
    /\ call' = [call EXCEPT ![c] = [Idle EXCEPT !.log = call[c].log]]
    /\ UNCHANGED <<backoff, pm, rl, cfg, now, calls>>

\* a millisecond passes
Tick ==
    /\ now < MaxTime
    /\ now' = now + 1
    /\ UNCHANGED <<backoff, pm, rl, cfg, state, failures, lastFailureTime, call, res, hist, calls>>

Next ==
    \/ \E c \in Callers : Start(c)
    \/ \E c \in Callers, ok \in BOOLEAN, r \in 0..(RandDen - 1) : OpSettle(c, ok, r)
    \/ \E c \in Callers : Wake(c)
    \/ \E c \in Callers : Return(c)
    \/ Tick

Spec == Init /\ [][Next]_vars

\* The caller gives the call up (cancels it, or its deadline passes) while
\* the retry loop is in its backoff wait.  execute takes no signal and
\* wait (lines 144-146) is a bare setTimeout that nothing clears, so no
\* code runs: only the caller's intent is recorded.
Cancel(c) ==
    /\ call[c].pc = "wait"
    /\ ~ call[c].cancelled
    /\ call' = [call EXCEPT ![c].cancelled = TRUE]
    /\ UNCHANGED <<backoff, pm, rl, cfg, state, failures, lastFailureTime, now, res, hist, calls>>

NextCancel ==
    \/ Next
    \/ \E c \in Callers : Cancel(c)

SpecCancel == Init /\ [][NextCancel]_vars

\* ------------------------------- ExponentialBackoffRetry on its own
InitBackoff ==
    /\ backoff \in {NewBackoff(o) : o \in BackoffOptions}
    /\ pm = Unused
    /\ rl = Unused
    /\ cfg = [kind |-> "rm", maxRetries |-> 0, failureThreshold |-> 0,
              resetTimeout |-> 0, baseDelay |-> 0, maxDelay |-> 0]
    /\ state = "CLOSED"
    /\ failures = 0
    /\ lastFailureTime = Null
    /\ now = 0
    /\ call = [c \in Callers |-> Idle]
    /\ res = [c \in Callers |-> NoResult]
    /\ hist = <<>>
    /\ calls = 0

\* lines 104-109: the constructor; it has no other statement, it never throws
Construct ==
    /\ backoff.pc = "new"
    /\ backoff' = [backoff EXCEPT
            !.pc = "built",
            !.baseDelay = OrDefault(backoff.opts.baseDelay, DefaultBaseDelay),
            !.maxDelay = OrDefault(backoff.opts.maxDelay, DefaultMaxDelay),
            !.maxRetries = OrDefault(backoff.opts.maxRetries, DefaultMaxRetries),
            !.jitter = JitterOf(backoff.opts.jitter)]
    /\ UNCHANGED <<pm, rl, cfg, state, failures, lastFailureTime, now, call, res, hist, calls>>

\* lines 129-142: calculateDelay(i) with the draw r / RandDen
Calculate(i, r) ==
    /\ backoff.pc = "built"
    /\ backoff' = [backoff EXCEPT
            !.i = i, !.r = r,
            !.delay = Delay(backoff.baseDelay, backoff.maxDelay,
                            backoff.jitter, i, r)]
    /\ UNCHANGED <<pm, rl, cfg, state, failures, lastFailureTime, now, call, res, hist, calls>>

NextBackoff ==
    \/ Construct
    \/ \E i \in 0..MaxIndex, r \in 0..(RandDen - 1) : Calculate(i, r)

SpecBackoff == InitBackoff /\ [][NextBackoff]_vars

\* ------------------------------------------------- PluginManager on its own
InitPlugins ==
    /\ pm = NoPlugins
    /\ rl = Unused
    /\ backoff = NoBackoff
    /\ cfg = [kind |-> "rm", maxRetries |-> 0, failureThreshold |-> 0,
              resetTimeout |-> 0, baseDelay |-> 0, maxDelay |-> 0]
    /\ state = "CLOSED"
    /\ failures = 0
    /\ lastFailureTime = Null
    /\ now = 0
    /\ call = [c \in Callers |-> Idle]
    /\ res = [c \in Callers |-> NoResult]
    /\ hist = <<>>
    /\ calls = 0

\* task t starts an operation and is the one that moves
Begins(t, op, p) ==
    [pm EXCEPT !.ops = @ + 1, !.actor = t,
               !.task[t] = [pc |-> "idle", op |-> op, p |-> p]]

\* lines 308-317 for task t: the hooks of its plugin are added and the
\* plugin is stored under its name
Registered(m, t) ==
    LET p == m.task[t].p
        n == Plugin(p).name
    IN [m EXCEPT !.hooks = AddHooks(@, p),
                 !.plugins[n] = p,
                 !.task[t].pc = "idle",
                 !.res[t] = "ok",
                 !.regs[n] = @ + 1,
                 !.gone = @ \ {p}]

\* registerPlugin(plugin) up to its first await or its end: lines 290-317
RegisterPlugin(t, p) ==
    /\ pm.task[t].pc = "idle"
    /\ pm.ops < MaxOps
    /\ LET m == Begins(t, "register", p)
       IN IF ~ WellFormed(p)
          THEN pm' = [m EXCEPT !.res[t] = "err"]
          ELSE IF pm.plugins[Plugin(p).name] # 0
          THEN pm' = [m EXCEPT !.res[t] = "err"]
          ELSE IF Plugin(p).initialize
          THEN pm' = [m EXCEPT !.task[t].pc = "initialize", !.res[t] = "none"]
          ELSE pm' = Registered(m, t)
    /\ UNCHANGED <<retrySystem, rl>>

\* plugin.initialize() settles: lines 302-317, or 303-305 when it throws
InitializeSettles(t, ok) ==
    /\ pm.task[t].pc = "initialize"
    /\ LET m == [pm EXCEPT !.actor = t]
       IN IF ok
          THEN pm' = Registered(m, t)
          ELSE pm' = [m EXCEPT !.task[t].pc = "idle", !.res[t] = "err"]
    /\ UNCHANGED <<retrySystem, rl>>

\* lines 366-367 for task t: the name is deleted from #plugins
Unregistered(m, t, n) ==
    [m EXCEPT !.plugins[n] = 0,
              !.task[t].pc = "idle",
              !.res[t] = "ok",
              !.regs[n] = 0,
              !.gone = @ \cup {m.task[t].p}]

\* unregisterPlugin(pluginName) up to its await or its end: lines 340-367
UnregisterPlugin(t, n) ==
    /\ pm.task[t].pc = "idle"
    /\ pm.ops < MaxOps
    /\ LET p == pm.plugins[n]
           m == Begins(t, "unregister", p)
       IN IF p = 0
          THEN pm' = [m EXCEPT !.res[t] = "err"]
          ELSE LET m2 == [m EXCEPT !.hooks = RemoveHooks(@, p)]
               IN IF Plugin(p).shutdown
                  THEN pm' = [m2 EXCEPT !.task[t].pc = "shutdown", !.res[t] = "none"]
                  ELSE pm' = Unregistered(m2, t, n)
    /\ UNCHANGED <<retrySystem, rl>>

\* plugin.shutdown() settles, with or without an error (lines 358-367)
ShutdownSettles(t) ==
    /\ pm.task[t].pc = "shutdown"
    /\ pm' = Unregistered([pm EXCEPT !.actor = t], t, Plugin(pm.task[t].p).name)
    /\ UNCHANGED <<retrySystem, rl>>

\* executeHook(hookName), lines 321-336, with hook functions that settle
\* before anything else runs: every function of #hooks.get(hookName) is
\* invoked
ExecuteHook(t, h) ==
    /\ pm.task[t].pc = "idle"
    /\ pm.ops < MaxOps
    /\ pm' = [Begins(t, "execute", 0) EXCEPT
                !.res[t] = "ok",
                !.last = [hook |-> h, invoked |-> pm.hooks[h]]]
    /\ UNCHANGED <<retrySystem, rl>>

NextPlugins ==
    \/ \E t \in Tasks, p \in PluginIds : RegisterPlugin(t, p)
    \/ \E t \in Tasks, ok \in BOOLEAN : InitializeSettles(t, ok)
    \/ \E t \in Tasks, n \in Names : UnregisterPlugin(t, n)
    \/ \E t \in Tasks : ShutdownSettles(t)
    \/ \E t \in Tasks, h \in HookNames : ExecuteHook(t, h)

SpecPlugins == InitPlugins /\ [][NextPlugins]_vars

\* ------------------------------------------- AdaptiveRateLimiter on its own
InitLimiter ==
    /\ rl \in {NewLimiter(o) : o \in LimiterOptions}
    /\ pm = Unused
    /\ backoff = NoBackoff
    /\ cfg = [kind |-> "rm", maxRetries |-> 0, failureThreshold |-> 0,
              resetTimeout |-> 0, baseDelay |-> 0, maxDelay |-> 0]
    /\ state = "CLOSED"
    /\ failures = 0
    /\ lastFailureTime = Null
    /\ now = 0
    /\ call = [c \in Callers |-> Idle]
    /\ res = [c \in Callers |-> NoResult]
    /\ hist = <<>>
    /\ calls = 0

\* everything but the limiter and the clock
others == <<cfg, state, failures, lastFailureTime, call, res, hist, calls,
            backoff, pm>>

\* isAllowed(clientId) up to its first await: lines 21-22, 37-46, 49-50
IsAllowed(q, c) ==
    /\ rl.req[q].pc = "idle"
    /\ rl.checks < MaxChecks
    /\ rl' = [rl EXCEPT !.checks = @ + 1,
                        !.requests = Cleanup(@, now, rl.windowMs),
                        !.req[q] = [pc |-> "metrics", client |-> c],
                        !.out[q] = "none"]
    /\ UNCHANGED <<others, now>>

\* getSystemMetrics has resolved with load (in tenths) while the metrics
\* counters hold successCount and errorCount: lines 50-55, 57-75
UpdateMetrics(q, load, successCount, errorCount, down) ==
    /\ rl.req[q].pc = "metrics"
    /\ rl' = [rl EXCEPT
            !.currentLimit = AdjustLimit(@, rl.minLimit, rl.maxLimit,
                                LoadFactor(load),
                                ErrorFactor(successCount, errorCount), down),
            !.req[q].pc = "adjusted"]
    /\ UNCHANGED <<others, now>>

\* isAllowed resumes after `await this.updateMetrics()`: lines 24-34
Decide(q) ==
    /\ rl.req[q].pc = "adjusted"
    /\ LET c == rl.req[q].client
           recentRequests == Recent(rl.requests[c], now - rl.windowMs)
       IN IF Len(recentRequests) >= rl.currentLimit
          THEN rl' = [rl EXCEPT !.req[q] = IdleRequest,
                                !.out[q] = "denied",
                                !.done = @ + 1]
          ELSE rl' = [rl EXCEPT !.req[q] = IdleRequest,
                                !.out[q] = "allowed",
                                !.done = @ + 1,
                                !.requests[c] = Append(recentRequests, now),
                                !.admitted[c] = Append(@, now)]
    /\ UNCHANGED <<others, now>>

NextLimiter ==
    \/ \E q \in Requests, c \in Clients : IsAllowed(q, c)
    \/ \E q \in Requests, load \in {2, 5, 9}, counts \in {<<0, 0>>, <<19, 1>>, <<0, 1>>},
          down \in BOOLEAN :
            UpdateMetrics(q, load, counts[1], counts[2], down)
    \/ \E q \in Requests : Decide(q)
    \/ Tick

SpecLimiter == InitLimiter /\ [][NextLimiter]_vars

TypeOK ==
    /\ state \in {"CLOSED", "OPEN", "HALF_OPEN"}
    /\ failures \in 0..MaxCalls
    /\ now \in 0..MaxTime
    /\ calls \in 0..MaxCalls

\* -------------------------------------------------------- properties
AllErr(h) == \A i \in 1..Len(h) : h[i].out = "err"

\* h holds n failures in a row
HasRun(h, n) ==
    \E i \in 1..Len(h) :
        /\ i + n - 1 <= Len(h)
        /\ \A j \in i..(i + n - 1) : h[j].out = "err"

\* caller c's call is admitted in this step
Admitted(c) == call[c].pc = "idle" /\ call'[c].pc = "op"

\* caller c's admitted call settles in this step
Settles(c) == call[c].pc = "ret" /\ call'[c].pc = "idle"

\* caller c's call found the breaker Open with resetTimeout elapsed
Trial(c) == call[c].found = "trial"

\* caller c's call found the breaker Open with resetTimeout not elapsed
Early(c) == call[c].found = "early"

\* caller c's call was turned away by the gate: no invocation, no attempt,
\* no wait, and the circuit-open error
Rejected(c) ==
    /\ call[c].pc = "idle"
    /\ call[c].inv = 0 /\ call[c].attempts = 0 /\ call[c].waits = 0
    /\ res[c] = Settle(Kind, "open", 0)

\* caller c's call is a RetryMechanism call in its retry loop
Retrying(c) == Kind = "rm" /\ InFlight(c)

\* C1: from Closed with failures = 0, fewer than failureThreshold failing
\* calls in a row leave the breaker Closed, and the failureThreshold-th
\* failing call in a row leaves it Open.
C1_ThresholdTrips ==
    /\ [](AllErr(hist) /\ Len(hist) < FailureThreshold => state = "CLOSED")
    /\ [][AllErr(hist') /\ Len(hist') = Len(hist) + 1
            /\ Len(hist') = FailureThreshold => state' = "OPEN"]_vars

C1_Witness ==
    /\ FailureThreshold = 2
    /\ AllErr(hist) /\ Len(hist) = 2
    /\ state = "OPEN"

\* C2: a call that starts while the breaker is Open and less than
\* resetTimeout after lastFailureTime fails with the circuit-open error,
\* without an invocation of the operation, an attempt or a backoff wait.
C2_OpenRejects ==
    \A c \in Callers : Early(c) => Rejected(c)

C2_Witness ==
    \E c \in Callers : Early(c) /\ Kind = "rm" /\ res[c] = RetryError("open", 0)

\* C3: while the trial call admitted by the Open to HalfOpen transition is
\* in flight in HalfOpen, no other call is admitted.
C3_SingleTrial ==
    [][\A c \in Callers :
        Admitted(c) =>
            ~ \E d \in Callers \ {c} :
                InFlight(d) /\ Trial(d) /\ state = "HALF_OPEN"]_vars

\* C4: the breaker is Open only if failureThreshold calls in a row have
\* failed since it was last Closed with failures = 0.
C4_ConsecutiveOnly ==
    state = "OPEN" => HasRun(hist, FailureThreshold)

\* C5: a call that finds the breaker Open with resetTimeout elapsed is
\* admitted and its operation is invoked once, the breaker is HalfOpen for
\* as long as that operation runs, and when it succeeds the call returns
\* the result and leaves the breaker Closed with failures = 0.
C5_TrialSucceeds ==
    /\ [](\A c \in Callers :
            /\ Trial(c) => (InFlight(c) /\ call[c].inv >= 1)
            /\ (Trial(c) /\ Kind = "cb") => call[c].inv = 1
            /\ (Trial(c) /\ call[c].pc \in {"op", "wait"}) => state = "HALF_OPEN")
    /\ [][\A c \in Callers :
            (Trial(c) /\ Settles(c) /\ call[c].out = "ok")
            => (state' = "CLOSED" /\ failures' = 0 /\ res'[c] = Returned)]_vars

\* C6: when the trial call fails the breaker is Open at once, whatever
\* failureThreshold is, lastFailureTime is the time of the failure and the
\* call fails with the error of its operation; a call that follows before
\* resetTimeout has elapsed again is rejected.
C6_TrialFails ==
    /\ [][\A c \in Callers :
            (Trial(c) /\ Settles(c) /\ call[c].out # "ok")
            => /\ state' = "OPEN"
               /\ lastFailureTime' = now
               /\ res'[c].status = "err" /\ res'[c].error = call[c].out]_vars
    /\ [](\A c \in Callers : Early(c) => Rejected(c))

\* C7: with maxRetries = n >= 1 a call whose operation fails every time
\* invokes it n + 1 times, with one backoff wait before every invocation
\* but the first, and then fails; there is never an (n + 2)-th invocation.
C7_ExhaustsAfterNPlus1 ==
    /\ [](\A c \in Callers :
            (Retrying(c) /\ cfg.maxRetries >= 1) =>
                /\ call[c].inv <= cfg.maxRetries + 1
                /\ call[c].pc = "wait" => call[c].waits = call[c].inv
                /\ call[c].pc \in {"op", "ret"} => call[c].waits + 1 = call[c].inv
                /\ (call[c].pc = "ret" /\ call[c].failed = call[c].inv) =>
                        /\ call[c].inv = cfg.maxRetries + 1
                        /\ call[c].out = "exhausted")
    /\ [][\A c \in Callers :
            (Retrying(c) /\ cfg.maxRetries >= 1 /\ Settles(c)
                /\ call[c].failed = call[c].inv)
            => res'[c] = RetryError("exhausted", cfg.maxRetries + 1)]_vars

C7_Witness ==
    \E c \in Callers :
        /\ Kind = "rm" /\ cfg.maxRetries = 2
        /\ call[c].pc = "idle" /\ res[c] = RetryError("exhausted", 3)
        /\ \E i \in 1..Len(hist) : hist[i] = [out |-> "err", inv |-> 3]

\* C8: with maxRetries = 0 a call whose operation fails invokes it once,
\* waits for no backoff and fails.
C8_ZeroRetries ==
    \A c \in Callers :
        (Retrying(c) /\ cfg.maxRetries = 0) =>
            /\ call[c].inv <= 1
            /\ call[c].waits = 0
            /\ call[c].pc # "wait"

\* C9: a call whose operation fails k <= maxRetries times and then
\* succeeds returns the result after k + 1 invocations: the loop does not
\* give up before, and does not invoke the operation after the success.
C9_SuccessAfterK ==
    /\ [](\A c \in Callers :
            Retrying(c) =>
                /\ call[c].out = "exhausted" => call[c].failed > MaxRetries
                /\ call[c].out = "ok" =>
                        /\ call[c].pc = "ret"
                        /\ call[c].failed <= MaxRetries
                        /\ call[c].inv = call[c].failed + 1)
    /\ [][\A c \in Callers :
            (Retrying(c) /\ Settles(c) /\ call[c].out = "ok")
            => (res'[c] = Returned /\ call'[c].inv = 0)]_vars

C9_Witness ==
    /\ Kind = "rm"
    /\ \E c \in Callers : call[c].pc = "idle" /\ res[c] = Returned
    /\ \E i \in 1..Len(hist) : hist[i] = [out |-> "ok", inv |-> 3]

AllRmErr(h) == Kind = "rm" /\ AllErr(h)

\* C10: the breaker's failure count changes only when a top-level call
\* settles; a RetryMechanism call that fails raises it by 1, one that
\* succeeds does not raise it.  With maxRetries = 1 and failureThreshold =
\* 2, the first failing call (2 invocations) leaves the breaker Closed and
\* the second (4 invocations in all) leaves it Open.
C10_FinalOutcomeOnly ==
    /\ [][failures' # failures => \E c \in Callers : Settles(c)]_vars
    /\ [][\A c \in Callers :
            (Settles(c) /\ Kind = "rm")
            => IF call[c].out = "ok"
               THEN failures' <= failures
               ELSE failures' = failures + 1]_vars
    /\ []((cfg.maxRetries = 1 /\ cfg.failureThreshold = 2 /\ AllRmErr(hist)) =>
            /\ Len(hist) = 1 => (state = "CLOSED" /\ hist[1].inv = 2)
            /\ Len(hist) = 2 => (state # "CLOSED" /\ hist[1].inv + hist[2].inv = 4))
    /\ [][(cfg.maxRetries = 1 /\ cfg.failureThreshold = 2 /\ AllRmErr(hist')
            /\ Len(hist) = 1 /\ Len(hist') = 2) => state' = "OPEN"]_vars

C10_Witness ==
    /\ cfg.maxRetries = 1 /\ cfg.failureThreshold = 2
    /\ AllRmErr(hist) /\ Len(hist) = 2
    /\ hist[1].inv + hist[2].inv = 4
    /\ state = "OPEN"

\* C11: every failure of RetryMechanism.execute is a RetryError whose
\* attempts is the number of invocations of the operation during the call:
\* this.maxRetries + 1 when the retries are exhausted, 0 when the breaker
\* rejects the call.
C11_TypedFailure ==
    /\ [](\A c \in Callers :
            (Kind = "rm" /\ res[c].status = "err") =>
                /\ res[c].name = "RetryError"
                /\ res[c].error = "exhausted" => res[c].attempts = MaxRetries + 1
                /\ res[c].error = "open" => res[c].attempts = 0)
    /\ [][\A c \in Callers :
            (Kind = "rm" /\ Settles(c) /\ call[c].out # "ok")
            => /\ res'[c].name = "RetryError"
               /\ res'[c].attempts = call[c].inv]_vars
    /\ [][\A c \in Callers :
            (Kind = "rm" /\ call[c].pc = "idle" /\ call'[c].pc = "idle"
                /\ calls' = calls + 1 /\ res'[c] # res[c])
            => res'[c] = RetryError("open", 0)]_vars

C11_Witness ==
    /\ Kind = "rm" /\ MaxRetries = 1
    /\ \E c, d \in Callers :
        /\ res[c] = RetryError("exhausted", 2)
        /\ res[d] = RetryError("open", 0)

\* C12: when the retries are exhausted, the error carried by the failure of
\* RetryMechanism.execute is the error of the last invocation of the
\* operation itself, not a new error made from it.
C12_OriginalErrorKept ==
    \A c \in Callers :
        (Kind = "rm" /\ res[c].status = "err" /\ res[c].attempts > 0)
        => res[c].error = "op"

\* the events of log named ev
Events(log, ev) == SelectSeq(log, LAMBDA e : e.event = ev)

\* n failure events numbered 1..n
FailureEvents(n) ==
    [i \in 1..n |-> [event |-> "retry_failure", attempts |-> i]]

\* C14: every failed attempt of a RetryMechanism call, the last one
\* included, is reported to logger.error with its attempt number when it
\* fails; when the retries are exhausted the logger has received
\* this.maxRetries + 1 failure events numbered 1, 2, ... in order, and
\* nothing else, by the time execute fails.
C14_EveryFailureLogged ==
    \A c \in Callers :
        Kind = "rm" =>
            /\ InFlight(c) =>
                    Events(call[c].log, "retry_failure") = FailureEvents(call[c].failed)
            /\ (call[c].out = "exhausted" \/ res[c].error = "exhausted") =>
                    call[c].log = FailureEvents(MaxRetries + 1)

C14_Witness ==
    \E c \in Callers :
        /\ Kind = "rm" /\ MaxRetries = 2
        /\ call[c].pc = "ret" /\ call[c].out = "exhausted"
        /\ Len(call[c].log) = 3 /\ call[c].log[3].attempts = 3

\* C15: a RetryMechanism call leaves one event per failed attempt and
\* exactly one terminal event, the last: a success event when it returns a
\* result, a failure event carrying the total of attempts when it fails,
\* by exhaustion or by rejection.
C15_OneTerminalEvent ==
    \A c \in Callers :
        (Kind = "rm" /\ res[c].status # "none") =>
            LET log == call[c].log
                n == Len(log)
            IN /\ n >= 1
               /\ \A i \in 1..(n - 1) : log[i].event = "retry_failure"
               /\ log[n].event = IF res[c].status = "ok" THEN "retry_success"
                                 ELSE "retry_exhausted"
               /\ res[c].status = "err" => log[n].attempts = res[c].attempts

\* C13: once the caller has cancelled a call during its backoff wait, the
\* loop makes no further invocation of the operation and the call fails
\* with a cancellation failure, which is not the retry-exhausted failure.
C13_CancelAbortsWait ==
    /\ [][\A c \in Callers :
            call[c].cancelled => call'[c].inv <= call[c].inv]_vars
    /\ [][\A c \in Callers :
            (call[c].cancelled /\ Settles(c))
            => (res'[c].status = "err" /\ res'[c].name = "CancellationError")]_vars

\* min(maxDelay, baseDelay * 2^i) of the built backoff, for its last
\* calculateDelay(i)
Capped == Min(backoff.maxDelay, Pow2(backoff.i) * backoff.baseDelay)

\* calculateDelay has been called on the built backoff
Calculated == backoff.pc = "built" /\ backoff.i >= 0

\* C16: built with jitter: false, calculateDelay(i) is exactly
\* min(maxDelay, baseDelay * 2^i), for every i and whatever Math.random()
\* draws.
C16_NoJitterExact ==
    (Calculated /\ backoff.opts.jitter = "false")
    => backoff.delay = Capped * DelayDen

ValidOptions(o) ==
    o.baseDelay > 0 /\ o.maxDelay >= o.baseDelay /\ o.maxRetries >= 0

\* C18: a backoff is never built from options with baseDelay <= 0,
\* maxDelay < baseDelay or maxRetries < 0: `new` fails instead.
C18_RejectsMalformed ==
    backoff.pc = "built" => ValidOptions(backoff.opts)

\* a call settles with a failure in this step
FailingSettle == \E c \in Callers : Settles(c) /\ call[c].out # "ok"

\* C19: the breaker starts Closed with failures = 0 and, as long as no
\* call fails, every step leaves it so: after any sequence of calls whose
\* operations all succeed it is Closed with failures = 0, and each of
\* them returns its result.
C19_SuccessKeepsClosed ==
    /\ [](calls = 0 => (state = "CLOSED" /\ failures = 0))
    /\ [][(state = "CLOSED" /\ failures = 0 /\ ~ FailingSettle)
            => (state' = "CLOSED" /\ failures' = 0)]_vars
    /\ [][\A c \in Callers :
            (Settles(c) /\ call[c].out = "ok") => res'[c] = Returned]_vars

C19_Witness ==
    /\ Kind = "cb" /\ calls = MaxCalls
    /\ \A c \in Callers : call[c].pc = "idle" /\ res[c] = Returned
    /\ state = "CLOSED" /\ failures = 0 /\ lastFailureTime = Null

\* a call is rejected in this step: it starts and no caller moves
Rejects == calls' = calls + 1 /\ \A c \in Callers : call'[c].pc = call[c].pc

\* C20: a call rejected by the gate leaves state, failures and
\* lastFailureTime as they were.
C20_RejectionFrame ==
    [][Rejects => /\ state' = state
                  /\ failures' = failures
                  /\ lastFailureTime' = lastFailureTime]_vars

C20_Witness ==
    \E c \in Callers :
        /\ Kind = "cb" /\ Early(c) /\ res[c] = Thrown("open")
        /\ call[c].inv = 0
        /\ state = "OPEN" /\ failures >= 1 /\ lastFailureTime # Null

\* C21: with failureThreshold >= 1 and whatever the interleaving of the
\* calls, the breaker is Open or HalfOpen only with failures >=
\* failureThreshold and lastFailureTime set, and Closed only with
\* failures < failureThreshold.
C21_StateMatchesCount ==
    cfg.failureThreshold >= 1 =>
        /\ state \in {"OPEN", "HALF_OPEN"} =>
                (failures >= cfg.failureThreshold /\ lastFailureTime # Null)
        /\ state = "CLOSED" => failures < cfg.failureThreshold

C21_Witness ==
    /\ cfg.failureThreshold = 1
    /\ state = "HALF_OPEN" /\ failures = 2
    /\ \A c \in Callers : InFlight(c)

\* C22: only the success of the trial call, the one admitted by the Open
\* to HalfOpen transition, closes a HalfOpen breaker; a call admitted
\* otherwise never does when it completes late, and when it fails late
\* with the breaker Open it leaves lastFailureTime as it is.
C22_OnlyTrialCloses ==
    /\ [][\A c \in Callers :
            (Settles(c) /\ state = "HALF_OPEN" /\ state' = "CLOSED")
            => Trial(c)]_vars
    /\ [][\A c \in Callers :
            (Settles(c) /\ ~ Trial(c) /\ state = "OPEN")
            => lastFailureTime' = lastFailureTime]_vars

\* task t starts registerPlugin in this step
StartsRegister(t) ==
    /\ pm'.ops = pm.ops + 1
    /\ pm'.actor = t
    /\ pm'.task[t].op = "register"

\* the plugins that #plugins holds
Stored == {pm.plugins[n] : n \in Names} \ {0}

\* C23: at most one plugin is registered per name.  A registerPlugin call
\* for a name that #plugins holds fails and leaves #plugins and #hooks as
\* they are; of the registerPlugin calls for one name, overlapping ones
\* included, at most one succeeds while the name is registered, and #hooks
\* holds only hooks of plugins that #plugins holds.
C23_OnePluginPerName ==
    /\ [][\A t \in Tasks :
            (StartsRegister(t) /\ WellFormed(pm'.task[t].p)
                /\ pm.plugins[Plugin(pm'.task[t].p).name] # 0)
            => /\ pm'.res[t] = "err"
               /\ pm'.plugins = pm.plugins
               /\ pm'.hooks = pm.hooks]_vars
    /\ [](\A n \in Names : pm.regs[n] <= 1)
    /\ [](\A h \in HookNames : \A fn \in pm.hooks[h] :
            \E p \in Stored : <<h, fn>> \in Plugin(p).hooks)

\* an executeHook is made in this step
Executes ==
    /\ pm'.ops = pm.ops + 1
    /\ pm'.task[pm'.actor].op = "execute"

\* the plugins that are registered and that no task is unregistering
Settled ==
    {p \in Stored :
        \A t \in Tasks : ~ (pm.task[t].pc = "shutdown" /\ pm.task[t].p = p)}

\* C24: executeHook invokes every hook that a registered plugin has under
\* the hook name, whatever other plugins have been unregistered, and it
\* invokes no hook of a plugin whose unregisterPlugin has completed
\* (unless a registered plugin has the same hook).
C24_UnregisterFrame ==
    [][Executes =>
        LET h == pm'.last.hook
            invoked == pm'.last.invoked
        IN /\ \A p \in Settled : \A hf \in Plugin(p).hooks :
                    hf[1] = h => hf[2] \in invoked
           /\ \A fn \in invoked :
                    (\E p \in pm.gone : <<h, fn>> \in Plugin(p).hooks)
                    => \E q \in Stored : <<h, fn>> \in Plugin(q).hooks]_vars

\* the isAllowed call of q returns in this step
Decides(q) == rl.req[q].pc = "adjusted" /\ rl'.req[q].pc = "idle"

\* how many requests of client c were admitted within the last windowMs
AdmittedInWindow(c) ==
    Cardinality({i \in 1..Len(rl.admitted[c]) :
                    rl.admitted[c][i] > now - rl.windowMs})

\* C25: isAllowed returns false and records nothing when the client has
\* currentLimit or more admitted requests within the last windowMs, and
\* otherwise returns true and records one request, at the current time;
\* and once an isAllowed call has completed, minLimit <= currentLimit <=
\* maxLimit provided minLimit <= maxLimit.  Whatever the interleaving.
C25_LimitEnforced ==
    /\ [][\A q \in Requests :
            Decides(q) =>
                LET c == rl.req[q].client
                IN IF AdmittedInWindow(c) >= rl.currentLimit
                   THEN /\ rl'.out[q] = "denied"
                        /\ rl'.requests = rl.requests
                   ELSE /\ rl'.out[q] = "allowed"
                        /\ Cardinality({i \in 1..Len(rl'.requests[c]) :
                                rl'.requests[c][i] > now - rl.windowMs})
                                = AdmittedInWindow(c) + 1
                        /\ rl'.requests[c][Len(rl'.requests[c])] = now
                        /\ \A d \in Clients \ {c} :
                                rl'.requests[d] = rl.requests[d]]_vars
    /\ []((rl.done >= 1 /\ rl.minLimit <= rl.maxLimit) =>
            (rl.minLimit <= rl.currentLimit /\ rl.currentLimit <= rl.maxLimit))

C25_Witness ==
    /\ rl.minLimit = 1 /\ rl.maxLimit = 2 /\ rl.currentLimit = 1
    /\ rl.done = 2
    /\ \E q, r \in Requests : rl.out[q] = "allowed" /\ rl.out[r] = "denied"
    /\ \E c \in Clients : Len(rl.requests[c]) = 1
====
